---- MODULE Spec2Model ----
(***************************************************************************)
(* Model of scripts/upload_file.py: the batch loop of main(), one          *)
(* upload_one() session per existing file (the orchestrating thread and    *)
(* the thread running the WebSocketApp callbacks), the chunk loop and the  *)
(* REST verifier.                                                          *)
(***************************************************************************)
EXTENDS Integers, Sequences, FiniteSets, TLC

\* ------------------------------------------------------------------ bounds
MaxFiles == 2        \* length of args.files
MaxFileSize == 3     \* bytes in a local file
MaxChunk == 2        \* largest chunkSize the server announces explicitly
MaxTextFrames == 3   \* text frames one session sends (Authorization included)
MaxHashLen == 6      \* characters (or bytes) of an input of the hash

\* ------------------------------------------------------- program constants
DefaultChunkSize == 524288
VerifyAttempts == 3
ShiftBits == 5
HalfWord == 65536
SuccessCode == 1
NoUpdateCode == 6
OtherCode == 0

NoError == ""
VerifyFailed == "chunks sent but verify failed"
Sids == {"s1", "s2"}

Min(a, b) == IF a < b THEN a ELSE b

\* ------------------------------------------------------------ Identity hash
\* ctypes.c_int32((h << 5) - h + c).value, computed on 16-bit halves so that no
\* intermediate value leaves the 32-bit range.
\* mutant: the sign bit is cleared instead of interpreted
c_int32_step_ClearsSign(h, c) ==
  LET lo    == h % HalfWord
      hi    == ((h - lo) \div HalfWord) % HalfWord
      lo31  == lo * (2 ^ ShiftBits) - lo + c
      nlo   == lo31 % HalfWord
      carry == lo31 \div HalfWord
      nhi   == (hi * (2 ^ ShiftBits) - hi + carry) % HalfWord
  IN  (nhi % (HalfWord \div 2)) * HalfWord + nlo

c_int32_step(h, c) ==
  LET lo    == h % HalfWord
      hi    == ((h - lo) \div HalfWord) % HalfWord
      lo31  == lo * (2 ^ ShiftBits) - lo + c
      nlo   == lo31 % HalfWord
      carry == lo31 \div HalfWord
      nhi   == (hi * (2 ^ ShiftBits) - hi + carry) % HalfWord
      shi   == IF nhi >= HalfWord \div 2 THEN nhi - HalfWord ELSE nhi
  IN  shi * HalfWord + nlo

RECURSIVE HashFold(_, _)
HashFold(h, codes) ==
  IF codes = <<>> THEN h
  ELSE HashFold(c_int32_step(h, Head(codes)), Tail(codes))

DigitChars == <<"0", "1", "2", "3", "4", "5", "6", "7", "8", "9">>

RECURSIVE PosDigits(_)
PosDigits(n) ==
  IF n < 10 THEN <<DigitChars[n + 1]>>
  ELSE PosDigits(n \div 10) \o <<DigitChars[(n % 10) + 1]>>

RECURSIVE NegDigits(_)
NegDigits(n) ==
  LET d == (10 - (n % 10)) % 10
      r == (n + d) \div 10
  IN  IF r = 0 THEN <<DigitChars[d + 1]>>
      ELSE NegDigits(r) \o <<DigitChars[d + 1]>>

\* str(h) of a Python int, as the sequence of its characters
str(h) == IF h < 0 THEN <<"-">> \o NegDigits(h) ELSE PosDigits(h)

java_hash(s) == str(HashFold(0, s))

hash_file_bytes(data) == str(HashFold(0, data))

\* ------------------------------------------------------------------ inputs
\* A file of n bytes holds the bytes 1, 2, ..., n: every position is distinct.
FileContents == { [k \in 1..n |-> k] : n \in 0..MaxFileSize }

ChunkSizeFields == {<<>>} \cup { <<c>> : c \in 0..MaxChunk }

Msg(a, b, c, st, sid, cs) ==
  [action |-> a, body |-> b, code |-> c, status |-> st, data |-> "object",
   sessionId |-> sid, chunkSize |-> cs]

Codes == {SuccessCode, NoUpdateCode, OtherCode}

\* body: "object" (a JSON object), "value" (valid JSON that is no object),
\* "invalid" (not JSON); data: "object" (absent or a JSON object), "value" (null
\* or another value that is no object)
BareMsgs ==
  { Msg("", "object", c, FALSE, "", <<>>) : c \in Codes }
    \cup { Msg("", b, OtherCode, FALSE, "", <<>>) : b \in {"value", "invalid"} }

AuthorizationMsgs ==
  { Msg("Authorization", "object", OtherCode, st, "", <<>>) : st \in BOOLEAN }
    \cup { Msg("Authorization", b, OtherCode, FALSE, "", <<>>) : b \in {"value", "invalid"} }

ClientInfoMsgs ==
  { Msg("ClientInfo", b, OtherCode, FALSE, "", <<>>) : b \in {"object", "value", "invalid"} }

FileUploadMsgs ==
  { Msg("FileUpload", "object", c, FALSE, sid, cs) :
      c \in {SuccessCode, NoUpdateCode}, sid \in Sids \cup {""}, cs \in ChunkSizeFields }
    \cup { [Msg("FileUpload", "object", c, FALSE, "", <<>>) EXCEPT !.data = "value"] :
             c \in {SuccessCode, NoUpdateCode} }
    \cup { Msg("FileUpload", b, OtherCode, FALSE, "", <<>>) : b \in {"value", "invalid"} }

OtherMsgs ==
  { Msg("Other", "object", c, FALSE, "", <<>>) : c \in {SuccessCode, OtherCode} }
    \cup { Msg("Other", b, OtherCode, FALSE, "", <<>>) : b \in {"value", "invalid"} }

Messages == BareMsgs \cup AuthorizationMsgs \cup ClientInfoMsgs
              \cup FileUploadMsgs \cup OtherMsgs

\* ------------------------------------------------------------------- state
VARIABLES
  files,        \* args.files: files[k] is os.path.isfile of the k-th path
  idx,          \* position of the for loop of main
  results,      \* the results list of main
  mpc,          \* where the orchestrating thread is
  file_data,    \* bytes of the file of the running upload_one
  state,        \* the state dict of upload_one
  done_event,   \* done_event.is_set()
  ws_open,      \* the WebSocketApp has not been closed
  hpc,          \* where the thread running ws.run_forever is
  sent,         \* frames handed to ws.send in this session, in order
  upload,       \* sid, chunk_size, i and the file offset of the chunk loop
  unread_ack,   \* a success-coded message arrived during time.sleep(2)
  wait_expired, \* done_event.wait(timeout=60) returned on its timeout
  attempt,      \* the loop variable of the verify loop
  reads,        \* requests verify_file_via_rest has issued for this file
  sleeps,       \* time.sleep(2) calls of the verify loop for this file
  verified,     \* the last value verify_file_via_rest returned
  result,       \* the dict upload_one returns
  orphans,      \* threads of earlier upload_one calls that are still running
  garbled,      \* this session met a transport error or an unparsable message
  no_sid,       \* on_message got a FileUpload (code not 6) without a sessionId
  hasher,       \* arg, i, h and the return value of one run of java_hash
  server_hash   \* server_hash of the read that made verify_file_via_rest
                \* return True

mainVars == <<files, idx, results, mpc>>
handlerVars == <<state, done_event, ws_open, hpc, sent, upload, unread_ack>>
verifyVars == <<attempt, reads, sleeps, verified, result>>
vars == <<files, idx, results, mpc, file_data, state, done_event, ws_open, hpc,
          sent, upload, unread_ack, wait_expired, attempt, reads, sleeps,
          verified, result, orphans, garbled, no_sid, hasher, server_hash>>

NewState == [done |-> FALSE, error |-> NoError, chunks_sent |-> FALSE,
             no_update |-> FALSE]
NoUpload == [sid |-> "", chunk_size |-> 0, i |-> 0, pos |-> 0]
NoResult == [file |-> 0, success |-> FALSE, error |-> NoError]
NoHasher == [arg |-> <<>>, i |-> 0, h |-> 0, ret |-> <<>>]

Result(ok, err) == [file |-> idx, success |-> ok, error |-> err]

TextFrame(t) == [type |-> t, sid |-> "", seq |-> 0, payload |-> <<>>]

\* Values of the session variables outside a session.
SessionIdle ==
  /\ file_data = <<>>
  /\ state = NewState
  /\ done_event = FALSE
  /\ ws_open = FALSE
  /\ hpc = "none"
  /\ sent = <<>>
  /\ upload = NoUpload
  /\ unread_ack = FALSE
  /\ wait_expired = FALSE
  /\ attempt = 0
  /\ reads = 0
  /\ sleeps = 0
  /\ verified = FALSE
  /\ result = NoResult
  /\ garbled = FALSE
  /\ no_sid = FALSE
  /\ server_hash = <<>>

Init ==
  /\ files \in UNION { [1..n -> BOOLEAN] : n \in 1..MaxFiles }
  /\ idx = 1
  /\ results = <<>>
  /\ mpc = "loop"
  /\ SessionIdle
  /\ orphans = 0
  /\ hasher = NoHasher


\* ------------------------------------------------------------ orchestrator
ResetSession ==
  /\ file_data' = <<>>
  /\ state' = NewState
  /\ done_event' = FALSE
  /\ ws_open' = FALSE
  /\ hpc' = "none"
  /\ sent' = <<>>
  /\ upload' = NoUpload
  /\ unread_ack' = FALSE
  /\ wait_expired' = FALSE
  /\ attempt' = 0
  /\ reads' = 0
  /\ sleeps' = 0
  /\ verified' = FALSE
  /\ result' = NoResult
  /\ garbled' = FALSE
  /\ no_sid' = FALSE
  /\ server_hash' = <<>>

\* mutant: break instead of continue
NotFound_Breaks ==
  /\ mpc = "loop"
  /\ idx <= Len(files)
  /\ ~files[idx]
  /\ results' = Append(results, Result(FALSE, "file not found"))
  /\ idx' = Len(files) + 1
  /\ UNCHANGED <<files, mpc, file_data, wait_expired>>
  /\ UNCHANGED handlerVars
  /\ UNCHANGED verifyVars
  /\ UNCHANGED <<orphans, garbled, no_sid, hasher, server_hash>>

\* main: the path is no file: record "file not found" and continue
NotFound ==
  /\ mpc = "loop"
  /\ idx <= Len(files)
  /\ ~files[idx]
  /\ results' = Append(results, Result(FALSE, "file not found"))
  /\ idx' = idx + 1
  /\ UNCHANGED <<files, mpc, file_data, wait_expired>>
  /\ UNCHANGED handlerVars
  /\ UNCHANGED verifyVars
  /\ UNCHANGED <<orphans, garbled, no_sid, hasher, server_hash>>

\* main calls upload_one: the file is read and hashed, the state dict and the
\* event are created, the thread running ws.run_forever is started
StartUpload ==
  /\ mpc = "loop"
  /\ idx <= Len(files)
  /\ files[idx]
  /\ \E d \in FileContents : file_data' = d
  /\ state' = NewState
  /\ done_event' = FALSE
  /\ ws_open' = TRUE
  /\ hpc' = "connecting"
  /\ mpc' = "wait"
  /\ UNCHANGED <<files, idx, results, sent, upload, unread_ack, wait_expired>>
  /\ UNCHANGED verifyVars
  /\ UNCHANGED <<orphans, garbled, no_sid, hasher, server_hash>>

\* ------------------------------------------------- thread of ws.run_forever
Handler(st, de, wo, h, se, up) ==
  /\ state' = st
  /\ done_event' = de
  /\ ws_open' = wo
  /\ hpc' = h
  /\ sent' = se
  /\ upload' = up

HandlerSame == Handler(state, done_event, ws_open, hpc, sent, upload)

\* a callback raised: WebSocketApp hands the exception to on_error and goes on
\* reading
CallbackRaises ==
  Handler([state EXCEPT !.error = "exception"], TRUE, ws_open, hpc, sent, upload)

\* state["done"] = True; done_event.set(); ws.close(): the read loop ends and
\* on_close runs
CloseDone(st) == Handler(st, TRUE, FALSE, "stopped", sent, upload)

on_open ==
  /\ hpc = "connecting"
  /\ ws_open
  /\ sent' = <<TextFrame("Authorization")>>
  /\ hpc' = "recv"
  /\ UNCHANGED <<state, done_event, ws_open, upload, unread_ack>>
  /\ UNCHANGED <<mainVars, file_data, wait_expired, verifyVars>>
  /\ UNCHANGED <<orphans, garbled, no_sid, hasher, server_hash>>

\* raw holds no "|"
OnBare(m) ==
  IF m.body = "invalid" THEN HandlerSame
  ELSE IF m.body = "value" THEN CallbackRaises
  ELSE IF m.code \in {SuccessCode, NoUpdateCode} /\ state.chunks_sent
       THEN CloseDone([state EXCEPT !.done = TRUE])
       ELSE HandlerSame

\* mutant: the ClientInfo frame is sent before the status flag is looked at
OnAuthorization_SendsFirst(m) ==
  IF m.body = "value" THEN CallbackRaises
  ELSE /\ Len(sent) < MaxTextFrames
       /\ IF m.status
          THEN Handler(state, done_event, ws_open, hpc,
                       Append(sent, TextFrame("ClientInfo")), upload)
          ELSE Handler([state EXCEPT !.error = "auth"], TRUE, FALSE, "stopped",
                       Append(sent, TextFrame("ClientInfo")), upload)

OnAuthorization(m) ==
  IF m.body = "value" THEN CallbackRaises
  ELSE IF m.status
       THEN /\ Len(sent) < MaxTextFrames
            /\ Handler(state, done_event, ws_open, hpc,
                       Append(sent, TextFrame("ClientInfo")), upload)
       ELSE CloseDone([state EXCEPT !.error = "auth"])

OnClientInfo(m) ==
  /\ Len(sent) < MaxTextFrames
  /\ Handler(state, done_event, ws_open, hpc,
             Append(sent, TextFrame("FileUploadCheck")), upload)

ChunkSizeOf(m) ==
  IF m.chunkSize = <<>> THEN DefaultChunkSize ELSE m.chunkSize[1]

\* the branches of action == "FileUpload" before the chunk loop
OnFileUpload(m) ==
  IF m.body = "value" THEN CallbackRaises
  ELSE IF m.code = NoUpdateCode
       THEN CloseDone([state EXCEPT !.done = TRUE, !.no_update = TRUE])
       ELSE IF m.data = "value" THEN CallbackRaises
       ELSE IF m.sessionId = ""
            THEN CloseDone([state EXCEPT !.error = "no sessionId"])
            ELSE Handler(state, done_event, ws_open, "send", sent,
                         [sid |-> m.sessionId, chunk_size |-> ChunkSizeOf(m),
                          i |-> 0, pos |-> 0])

\* any other action
OnOther(m) ==
  IF m.body = "value" THEN CallbackRaises
  ELSE IF m.code = SuccessCode /\ state.chunks_sent
       THEN CloseDone([state EXCEPT !.done = TRUE])
       ELSE HandlerSame

Dispatch(m) ==
  IF m.action = "" THEN OnBare(m)
  ELSE IF m.body = "invalid" THEN CallbackRaises
  ELSE IF m.action = "Authorization" THEN OnAuthorization(m)
  ELSE IF m.action = "ClientInfo" THEN OnClientInfo(m)
  ELSE IF m.action = "FileUpload" THEN OnFileUpload(m)
  ELSE OnOther(m)

\* json.loads(raw), or json.loads(raw[idx + 1:]), raises JSONDecodeError
FailsToParse(m) == m.body = "invalid"

\* a FileUpload body whose code is not 6 and whose data holds no sessionId
LacksSessionId(m) ==
  /\ m.action = "FileUpload"
  /\ m.body = "object"
  /\ m.code # NoUpdateCode
  /\ (m.data = "value" \/ m.sessionId = "")

\* the read loop receives one message and calls on_message
on_message ==
  /\ hpc = "recv"
  /\ ws_open
  /\ \E m \in Messages :
       /\ Dispatch(m)
       /\ garbled' = (garbled \/ FailsToParse(m))
       /\ no_sid' = (no_sid \/ LacksSessionId(m))
  /\ UNCHANGED <<mainVars, file_data, unread_ack, wait_expired, verifyVars>>
  /\ UNCHANGED <<orphans, hasher, server_hash>>

\* a transport error in the read loop or while connecting: on_error, then the
\* loop ends and on_close runs
on_error ==
  /\ hpc \in {"connecting", "recv"}
  /\ ws_open
  /\ Handler([state EXCEPT !.error = "exception"], TRUE, FALSE, "stopped", sent,
             upload)
  /\ UNCHANGED <<mainVars, file_data, unread_ack, wait_expired, verifyVars>>
  /\ garbled' = TRUE
  /\ UNCHANGED <<orphans, no_sid, hasher, server_hash>>

\* the server closes the connection; or the read loop finds the app closed by
\* the orchestrating thread: on_close
on_close ==
  /\ hpc \in {"connecting", "recv"}
  /\ Handler(state, TRUE, FALSE, "stopped", sent, upload)
  /\ UNCHANGED <<mainVars, file_data, unread_ack, wait_expired, verifyVars>>
  /\ UNCHANGED <<orphans, garbled, no_sid, hasher, server_hash>>

\* the number of bytes f.read(n) returns at offset pos of a file of size bytes
ReadLen(size, pos, n) == IF n < 0 THEN size - pos ELSE Min(n, size - pos)

\* f.read(n) at offset pos
FRead(data, pos, n) == SubSeq(data, pos + 1, pos + ReadLen(Len(data), pos, n))

\* mutant: the counter is incremented before it is packed
ChunkFrame_CountsFromOne(sid, i, chunk) ==
  [type |-> "chunk", sid |-> sid, seq |-> i + 1, payload |-> chunk]

ChunkFrame(sid, i, chunk) ==
  [type |-> "chunk", sid |-> sid, seq |-> i, payload |-> chunk]

NextChunk == FRead(file_data, upload.pos, upload.chunk_size)

\* one round of the chunk loop: a chunk is read and sent
SendChunk ==
  /\ hpc = "send"
  /\ ws_open
  /\ NextChunk # <<>>
  /\ sent' = Append(sent, ChunkFrame(upload.sid, upload.i, NextChunk))
  /\ upload' = [upload EXCEPT !.i = upload.i + 1,
                              !.pos = upload.pos + Len(NextChunk)]
  /\ UNCHANGED <<state, done_event, ws_open, hpc, unread_ack>>
  /\ UNCHANGED <<mainVars, file_data, wait_expired, verifyVars>>
  /\ UNCHANGED <<orphans, garbled, no_sid, hasher, server_hash>>

\* ws.send of a chunk raises (the app was closed by the orchestrating thread, or
\* the transport failed): on_error, the loop ends, on_close
SendFails ==
  /\ hpc = "send"
  /\ NextChunk # <<>>
  /\ Handler([state EXCEPT !.error = "exception"], TRUE, FALSE, "stopped", sent,
             upload)
  /\ UNCHANGED <<mainVars, file_data, unread_ack, wait_expired, verifyVars>>
  /\ garbled' = (garbled \/ ws_open)
  /\ UNCHANGED <<orphans, no_sid, hasher, server_hash>>

\* f.read returns b"": the loop ends, chunks_sent is set, time.sleep(2) starts
FinishSend ==
  /\ hpc = "send"
  /\ NextChunk = <<>>
  /\ Handler([state EXCEPT !.chunks_sent = TRUE], done_event, ws_open, "grace",
             sent, upload)
  /\ UNCHANGED <<mainVars, file_data, unread_ack, wait_expired, verifyVars>>
  /\ UNCHANGED <<orphans, garbled, no_sid, hasher, server_hash>>

IsSuccessAck(m) ==
  /\ m.body = "object"
  /\ \/ m.action = "" /\ m.code \in {SuccessCode, NoUpdateCode}
     \/ m.action # "" /\ m.code = SuccessCode

\* a success-coded message reaches the socket while the thread sleeps in
\* on_message; the read loop is not running, so it is not dispatched
AckArrives ==
  /\ hpc = "grace"
  /\ ws_open
  /\ \E m \in Messages : IsSuccessAck(m)
  /\ unread_ack' = TRUE
  /\ UNCHANGED <<state, done_event, ws_open, hpc, sent, upload>>
  /\ UNCHANGED <<mainVars, file_data, wait_expired, verifyVars>>
  /\ UNCHANGED <<orphans, garbled, no_sid, hasher, server_hash>>

\* time.sleep(2) returns: done_event.set(); ws.close(); the loop ends, on_close
GraceEnd ==
  /\ hpc = "grace"
  /\ Handler(state, TRUE, FALSE, "stopped", sent, upload)
  /\ UNCHANGED <<mainVars, file_data, unread_ack, wait_expired, verifyVars>>
  /\ UNCHANGED <<orphans, garbled, no_sid, hasher, server_hash>>

\* ------------------------------------------------- upload_one after start
\* done_event.wait(timeout=60) returns because the event is set
WaitSignalled ==
  /\ mpc = "wait"
  /\ done_event
  /\ mpc' = "close"
  /\ UNCHANGED <<files, idx, results, file_data, wait_expired>>
  /\ UNCHANGED <<handlerVars, verifyVars>>
  /\ UNCHANGED <<orphans, garbled, no_sid, hasher, server_hash>>

\* done_event.wait(timeout=60) returns because 60 s have passed
WaitTimeout ==
  /\ mpc = "wait"
  /\ ~done_event
  /\ wait_expired' = TRUE
  /\ mpc' = "close"
  /\ UNCHANGED <<files, idx, results, file_data>>
  /\ UNCHANGED <<handlerVars, verifyVars>>
  /\ UNCHANGED <<orphans, garbled, no_sid, hasher, server_hash>>

\* ws.close() of the orchestrating thread
MainClose ==
  /\ mpc = "close"
  /\ ws_open' = FALSE
  /\ mpc' = "join"
  /\ UNCHANGED <<files, idx, results, file_data, wait_expired>>
  /\ UNCHANGED <<state, done_event, hpc, sent, upload, unread_ack, verifyVars>>
  /\ UNCHANGED <<orphans, garbled, no_sid, hasher, server_hash>>

\* t.join(timeout=5) returns because the thread has ended
JoinDone ==
  /\ mpc = "join"
  /\ hpc = "stopped"
  /\ mpc' = "check_error"
  /\ UNCHANGED <<files, idx, results, file_data, wait_expired>>
  /\ UNCHANGED <<handlerVars, verifyVars>>
  /\ UNCHANGED <<orphans, garbled, no_sid, hasher, server_hash>>

\* t.join(timeout=5) returns on its timeout: the thread is still inside the
\* chunk loop or the sleep that follows it
JoinTimeout ==
  /\ mpc = "join"
  /\ hpc \in {"send", "grace"}
  /\ mpc' = "check_error"
  /\ UNCHANGED <<files, idx, results, file_data, wait_expired>>
  /\ UNCHANGED <<handlerVars, verifyVars>>
  /\ UNCHANGED <<orphans, garbled, no_sid, hasher, server_hash>>

Return(r) ==
  /\ result' = r
  /\ mpc' = "return"

\* mutant: state["error"] is not tested
CheckError_SkipsTest ==
  /\ mpc = "check_error"
  /\ mpc' = "check_done"
  /\ result' = result
  /\ UNCHANGED <<files, idx, results, file_data, wait_expired>>
  /\ UNCHANGED <<handlerVars, attempt, reads, sleeps, verified>>
  /\ UNCHANGED <<orphans, garbled, no_sid, hasher, server_hash>>

\* if state["error"]: return the failure
CheckError ==
  /\ mpc = "check_error"
  /\ IF state.error # NoError
     THEN Return(Result(FALSE, state.error))
     ELSE mpc' = "check_done" /\ result' = result
  /\ UNCHANGED <<files, idx, results, file_data, wait_expired>>
  /\ UNCHANGED <<handlerVars, attempt, reads, sleeps, verified>>
  /\ UNCHANGED <<orphans, garbled, no_sid, hasher, server_hash>>

\* mutant: success is returned only for state["done"] and state["chunks_sent"]
CheckDone_NeedsChunks ==
  /\ mpc = "check_done"
  /\ IF state.done /\ state.chunks_sent
     THEN Return(Result(TRUE, NoError))
     ELSE mpc' = "check_chunks" /\ result' = result
  /\ UNCHANGED <<files, idx, results, file_data, wait_expired>>
  /\ UNCHANGED <<handlerVars, attempt, reads, sleeps, verified>>
  /\ UNCHANGED <<orphans, garbled, no_sid, hasher, server_hash>>

\* if state["done"] and (state["no_update"] or not state["chunks_sent"])
CheckDone ==
  /\ mpc = "check_done"
  /\ IF state.done /\ (state.no_update \/ ~state.chunks_sent)
     THEN Return(Result(TRUE, NoError))
     ELSE mpc' = "check_chunks" /\ result' = result
  /\ UNCHANGED <<files, idx, results, file_data, wait_expired>>
  /\ UNCHANGED <<handlerVars, attempt, reads, sleeps, verified>>
  /\ UNCHANGED <<orphans, garbled, no_sid, hasher, server_hash>>

\* mutant: the verify loop is entered whether or not chunks_sent is set
CheckChunksSent_AlwaysVerifies ==
  /\ mpc = "check_chunks"
  /\ mpc' = "verify"
  /\ result' = result
  /\ UNCHANGED <<files, idx, results, file_data, wait_expired>>
  /\ UNCHANGED <<handlerVars, attempt, reads, sleeps, verified>>
  /\ UNCHANGED <<orphans, garbled, no_sid, hasher, server_hash>>

\* if state["chunks_sent"]: enter the verify loop; else return "timeout"
CheckChunksSent ==
  /\ mpc = "check_chunks"
  /\ IF state.chunks_sent
     THEN mpc' = "verify" /\ result' = result
     ELSE Return(Result(FALSE, "timeout"))
  /\ UNCHANGED <<files, idx, results, file_data, wait_expired>>
  /\ UNCHANGED <<handlerVars, attempt, reads, sleeps, verified>>
  /\ UNCHANGED <<orphans, garbled, no_sid, hasher, server_hash>>

\* ------------------------------------------------------------- verifier
ServerHashes == {<<>>} \cup { hash_file_bytes(d) : d \in FileContents }

\* What one GET /api/file/info does: "object" a JSON object (its data absent,
\* an object, or another truthy value), "url_error" URLError or HTTPError,
\* "bad_json" JSONDecodeError, "value" valid JSON that is no object,
\* "read_timeout" the 10 s timeout while the response is read.
VerifyResponses ==
  { [kind |-> "object", code |-> c, data |-> d, contentHash |-> h] :
      c \in {SuccessCode, OtherCode}, d \in {"none", "object", "value"},
      h \in ServerHashes }
    \cup { [kind |-> k, code |-> OtherCode, data |-> "none", contentHash |-> <<>>] :
             k \in {"url_error", "bad_json", "value", "read_timeout"} }

\* the exceptions the except clause of verify_file_via_rest does not name
VerifyRaises(r) ==
  \/ r.kind \in {"value", "read_timeout"}
  \/ r.kind = "object" /\ r.code = SuccessCode /\ r.data = "value"

\* mutant: the contentHash of the response is not compared
verify_file_via_rest_AnyHash(r, expected_hash) ==
  /\ r.kind = "object"
  /\ r.code = SuccessCode
  /\ r.data = "object"

verify_file_via_rest(r, expected_hash) ==
  /\ r.kind = "object"
  /\ r.code = SuccessCode
  /\ r.data = "object"
  /\ r.contentHash = expected_hash

\* one round of for attempt in range(3), up to the sleep
VerifyAttempt ==
  /\ mpc = "verify"
  /\ reads' = reads + 1
  /\ \E r \in VerifyResponses :
       IF VerifyRaises(r)
       THEN mpc' = "crashed" /\ UNCHANGED <<verified, result, server_hash>>
       ELSE /\ verified' = verify_file_via_rest(r, hash_file_bytes(file_data))
            /\ IF verified'
               THEN server_hash' = r.contentHash /\ Return(Result(TRUE, NoError))
               ELSE mpc' = "backoff" /\ UNCHANGED <<result, server_hash>>
  /\ UNCHANGED <<files, idx, results, file_data, wait_expired>>
  /\ UNCHANGED <<handlerVars, attempt, sleeps>>
  /\ UNCHANGED <<orphans, garbled, no_sid, hasher>>

\* time.sleep(2) of the verify loop, then the next round or the return after
\* the loop
Backoff ==
  /\ mpc = "backoff"
  /\ sleeps' = sleeps + 1
  /\ IF attempt + 1 < VerifyAttempts
     THEN attempt' = attempt + 1 /\ mpc' = "verify" /\ result' = result
     ELSE attempt' = attempt
          /\ Return(Result(FALSE, VerifyFailed))
  /\ UNCHANGED <<files, idx, results, file_data, wait_expired>>
  /\ UNCHANGED <<handlerVars, reads, verified>>
  /\ UNCHANGED <<orphans, garbled, no_sid, hasher, server_hash>>

\* main: results.append(result), next path
Record ==
  /\ mpc = "return"
  /\ results' = Append(results, result)
  /\ idx' = idx + 1
  /\ mpc' = "loop"
  /\ ResetSession
  /\ orphans' = IF hpc = "stopped" THEN orphans ELSE orphans + 1
  /\ UNCHANGED <<files, hasher>>

\* a thread left running by t.join(timeout=5) ends
OrphanEnds ==
  /\ orphans > 0
  /\ orphans' = orphans - 1
  /\ UNCHANGED <<mainVars, file_data, wait_expired, handlerVars, verifyVars>>
  /\ UNCHANGED <<garbled, no_sid, hasher, server_hash>>

\* main: the loop is over, print(json.dumps(results)); the process exits and its
\* daemon threads with it
PrintResults ==
  /\ mpc = "loop"
  /\ idx > Len(files)
  /\ mpc' = "printed"
  /\ UNCHANGED <<files, idx, results, file_data, wait_expired>>
  /\ UNCHANGED <<handlerVars, verifyVars>>
  /\ orphans' = 0
  /\ UNCHANGED <<garbled, no_sid, hasher, server_hash>>

Next ==
  \/ NotFound
  \/ StartUpload
  \/ on_open
  \/ on_message
  \/ on_error
  \/ on_close
  \/ SendChunk
  \/ SendFails
  \/ FinishSend
  \/ AckArrives
  \/ GraceEnd
  \/ WaitSignalled
  \/ WaitTimeout
  \/ MainClose
  \/ JoinDone
  \/ JoinTimeout
  \/ CheckError
  \/ CheckDone
  \/ CheckChunksSent
  \/ VerifyAttempt
  \/ Backoff
  \/ Record
  \/ OrphanEnds
  \/ PrintResults

Spec == Init /\ [][Next]_vars

\* The program run on one path.
InitSession ==
  /\ files \in [1..1 -> BOOLEAN]
  /\ idx = 1
  /\ results = <<>>
  /\ mpc = "loop"
  /\ SessionIdle
  /\ orphans = 0
  /\ hasher = NoHasher

SpecSession == InitSession /\ [][Next]_vars

\* The steps of the orchestrating thread: none of them blocks for ever, the two
\* waits because of their timeouts.
MainStep ==
  \/ NotFound
  \/ StartUpload
  \/ WaitSignalled
  \/ WaitTimeout
  \/ MainClose
  \/ JoinDone
  \/ JoinTimeout
  \/ CheckError
  \/ CheckDone
  \/ CheckChunksSent
  \/ VerifyAttempt
  \/ Backoff
  \/ Record
  \/ PrintResults

\* run_forever finds the app closed by ws.close() and leaves its loop
LoopEnds == on_close /\ ~ws_open

SpecLive ==
  InitSession /\ [][Next]_vars /\ WF_vars(MainStep) /\ WF_vars(LoopEnds)

\* ------------------------------------------------------- one run of the hash
\* ord(ch) of the characters of a str, or the values of the bytes of a file:
\* NUL, "a", the largest byte and the largest code point
HashCodes == {0, 97, 255, 1114111}

HashInputs == UNION { [1..n -> HashCodes] : n \in 0..MaxHashLen }

\* java_hash(s), or the loop of hash_file_bytes over data, is entered: h = 0
InitHash ==
  /\ files = <<>>
  /\ idx = 1
  /\ results = <<>>
  /\ mpc = "loop"
  /\ SessionIdle
  /\ orphans = 0
  /\ hasher \in { [arg |-> a, i |-> 0, h |-> 0, ret |-> <<>>] : a \in HashInputs }

\* one round of the for loop
HashStep ==
  /\ hasher.ret = <<>>
  /\ hasher.i < Len(hasher.arg)
  /\ hasher' = [hasher EXCEPT !.i = hasher.i + 1,
                              !.h = c_int32_step(hasher.h, hasher.arg[hasher.i + 1])]
  /\ UNCHANGED <<mainVars, file_data, wait_expired, handlerVars, verifyVars>>
  /\ UNCHANGED <<orphans, garbled, no_sid, server_hash>>

\* return str(h)
HashReturn ==
  /\ hasher.ret = <<>>
  /\ hasher.i = Len(hasher.arg)
  /\ hasher' = [hasher EXCEPT !.ret = str(hasher.h)]
  /\ UNCHANGED <<mainVars, file_data, wait_expired, handlerVars, verifyVars>>
  /\ UNCHANGED <<orphans, garbled, no_sid, server_hash>>

NextHash ==
  \/ HashStep
  \/ HashReturn

SpecHash == InitHash /\ [][NextHash]_vars

\* ------------------------------------------------------------------ claims
IsChunk(f) == f.type = "chunk"
ChunkFrames == SelectSeq(sent, IsChunk)

IsClientInfo(f) == f.type = "ClientInfo"

\* C1: once on_message has handled an Authorization message with status false,
\* the connection is closed and the hand-off signal is set, the rejection and
\* everything after it send no frame (so no ClientInfo, FileUploadCheck or chunk
\* frame follows), and upload_one returns success=false with the
\* authentication error.
C1_AuthRejected ==
  /\ [](state.error = "auth" => ~ws_open /\ done_event /\ hpc = "stopped")
  /\ []((mpc = "return" /\ state.error = "auth")
          => result = Result(FALSE, "auth"))
  /\ [][state'.error = "auth" => sent' = sent]_vars
  /\ [][(state.error = "auth" /\ mpc # "return") => state'.error = "auth"]_vars

C1_Witness ==
  /\ mpc = "return"
  /\ state.error = "auth"
  /\ result = Result(FALSE, "auth")
  /\ SelectSeq(sent, IsClientInfo) = <<>>

RECURSIVE Concat(_)
Concat(frames) ==
  IF frames = <<>> THEN <<>> ELSE Head(frames).payload \o Concat(Tail(frames))

CeilDiv(s, c) == (s + c - 1) \div c

\* the sizes f.read(n) returns, in turn, on a file of `size` bytes from `pos`
RECURSIVE ReadSizes(_, _, _)
ReadSizes(size, pos, n) ==
  LET got == ReadLen(size, pos, n)
  IN  IF got = 0 THEN <<>> ELSE <<got>> \o ReadSizes(size, pos + got, n)

C3_ChunkedTransmitter ==
  LET S == Len(file_data)
      C == upload.chunk_size
      n == Len(ChunkFrames)
  IN  /\ \A k \in 1..n :
           /\ ChunkFrames[k].seq = k - 1
           /\ ChunkFrames[k].sid = upload.sid
      /\ C >= 1 =>
           /\ \A k \in 1..n :
                ChunkFrames[k].payload
                  = SubSeq(file_data, (k - 1) * C + 1, Min(k * C, S))
           /\ \A k \in 1..(n - 1) : Len(ChunkFrames[k].payload) = C
           /\ state.chunks_sent =>
                /\ n = CeilDiv(S, C)
                /\ n > 0 => Len(ChunkFrames[n].payload) = S - (n - 1) * C
                /\ Concat(ChunkFrames) = file_data
      /\ ReadSizes(1500000, 0, DefaultChunkSize)
           = <<DefaultChunkSize, DefaultChunkSize, 451424>>

C3_Witness ==
  /\ state.chunks_sent
  /\ upload.chunk_size = 2
  /\ Len(file_data) = 3
  /\ Len(ChunkFrames) = 2
  /\ Len(ChunkFrames[2].payload) = 1

\* C4: the verify loop issues at most 3 read requests per file; when it ends
\* without a matching read it has issued exactly 3 and upload_one returns the
\* verification failure; when a read matches, upload_one returns success at once.
C4_VerifierThreeAttempts ==
  /\ reads <= VerifyAttempts
  /\ (mpc \in {"return", "crashed"} /\ reads > 0 /\ ~verified)
       => (mpc = "return" /\ reads = VerifyAttempts
             /\ result = Result(FALSE, VerifyFailed))
  /\ (mpc \in {"return", "crashed"} /\ verified)
       => (mpc = "return" /\ reads = attempt + 1 /\ result = Result(TRUE, NoError))

\* C5: a verify loop that ends in the verification failure has slept once
\* between attempts and not after the last: 3 failed attempts, 2 sleeps.
C5_NoBackoffAfterLastAttempt ==
  (mpc = "return" /\ result.error = VerifyFailed)
    => (reads = VerifyAttempts /\ sleeps = VerifyAttempts - 1)

\* C6: when, in a session with no recorded error, a success-coded message has
\* arrived during the grace interval after the last chunk, no read request is
\* issued for the file and upload_one returns success.
C6_FastPath ==
  (unread_ack /\ state.error = NoError)
    => (reads = 0 /\ (mpc = "return" => result = Result(TRUE, NoError)))

\* C7: when the session has closed before the wait expired with all chunks
\* sent, no success recorded and no error recorded, the verifier is invoked and
\* upload_one returns its outcome: success iff a read matched, the verification
\* failure otherwise.
C7_AmbiguousGoesToVerifier ==
  (mpc \in {"return", "crashed"} /\ ~wait_expired /\ state.chunks_sent
     /\ ~state.done /\ state.error = NoError)
    => /\ mpc = "return"
       /\ reads >= 1
       /\ result = IF verified THEN Result(TRUE, NoError)
                   ELSE Result(FALSE, VerifyFailed)

\* C8: a path that is no file gets the "file not found" failure as its result,
\* the step of main that records it opens no connection, sends no frame and
\* issues no read request, and the loop goes on to the next path.
C8_MissingFileSkipped ==
  /\ [](\A k \in 1..Len(results) :
          ~files[k] => results[k] = [file |-> k, success |-> FALSE,
                                     error |-> "file not found"])
  /\ [][(mpc = "loop" /\ idx <= Len(files) /\ ~files[idx] /\ orphans' = orphans)
          => /\ results' = Append(results, [file |-> idx, success |-> FALSE,
                                            error |-> "file not found"])
             /\ idx' = idx + 1
             /\ mpc' = "loop"
             /\ UNCHANGED <<handlerVars, verifyVars, file_data>>]_vars
  /\ [](~SessionIdle => (idx <= Len(files) /\ files[idx]))

C8_Witness ==
  /\ Len(files) = 2
  /\ ~files[1]
  /\ Len(results) = 2
  /\ results[2] = [file |-> 2, success |-> TRUE, error |-> NoError]

\* C9: whatever the sessions' outcomes, the program ends by printing one result
\* per input path, in input order.
C9_OneResultPerPath ==
  (mpc \in {"printed", "crashed"})
    => /\ mpc = "printed"
       /\ Len(results) = Len(files)
       /\ \A k \in 1..Len(results) : results[k].file = k

C11_ParseOrTransportErrorFails ==
  (mpc = "return" /\ garbled)
    => (~result.success /\ result.error # NoError /\ ~ws_open)

\* C12: once on_message has handled a FileUpload response whose code is not the
\* no-update code and which carries no session identifier, no binary chunk
\* frame has been or is sent in the session, and upload_one returns
\* success=false with an error, with the connection closed.
C12_MissingSessionIdFails ==
  no_sid => /\ ChunkFrames = <<>>
            /\ mpc = "return"
                 => (~result.success /\ result.error # NoError /\ ~ws_open)

\* C13: the hash of a string or byte sequence is the fold
\* h := (h*31 + code) mod 2^32 read as a signed 32-bit integer, from h = 0 and
\* truncated after every step: every intermediate h and the returned text agree
\* with that fold (negative values included), java_hash and hash_file_bytes
\* agree on equal code sequences, the empty input gives "0", "hello" gives
\* 99162322 and six bytes 0xFF give -1046153312.
\* (h*31 + c) mod 2^32 as a signed integer, on the four bytes of h
RefStep(h, c) ==
  LET b0 == h % (2 ^ 8)
      b1 == (h \div (2 ^ 8)) % (2 ^ 8)
      b2 == (h \div (2 ^ 16)) % (2 ^ 8)
      b3 == (h \div (2 ^ 24)) % (2 ^ 8)
      t0 == b0 * 31 + c
      t1 == b1 * 31 + (t0 \div (2 ^ 8))
      t2 == b2 * 31 + (t1 \div (2 ^ 8))
      t3 == b3 * 31 + (t2 \div (2 ^ 8))
      r3 == t3 % (2 ^ 8)
      s3 == IF r3 >= 2 ^ 7 THEN r3 - 2 ^ 8 ELSE r3
  IN  s3 * (2 ^ 24) + (t2 % (2 ^ 8)) * (2 ^ 16) + (t1 % (2 ^ 8)) * (2 ^ 8)
        + (t0 % (2 ^ 8))

RECURSIVE RefFold(_, _)
RefFold(h, codes) ==
  IF codes = <<>> THEN h ELSE RefFold(RefStep(h, Head(codes)), Tail(codes))

C13_IdentityHasher ==
  /\ hasher.h = RefFold(0, SubSeq(hasher.arg, 1, hasher.i))
  /\ hasher.ret # <<>> =>
       /\ hasher.ret = str(RefFold(0, hasher.arg))
       /\ hasher.ret = java_hash(hasher.arg)
       /\ hasher.ret = hash_file_bytes(hasher.arg)
       /\ (hasher.ret[1] = "-") <=> (RefFold(0, hasher.arg) < 0)
       /\ hasher.arg = <<>> => hasher.ret = <<"0">>
  /\ java_hash(<<104, 101, 108, 108, 111>>)
       = <<"9", "9", "1", "6", "2", "3", "2", "2">>
  /\ hash_file_bytes(<<255, 255, 255, 255, 255, 255>>)
       = <<"-", "1", "0", "4", "6", "1", "5", "3", "3", "1", "2">>

C13_Witness ==
  /\ hasher.ret # <<>>
  /\ hasher.ret[1] = "-"
  /\ \A k \in 1..Len(hasher.arg) : hasher.arg[k] = 255

\* C14: the frames of a session respect the handshake order: the first frame
\* is the Authorization frame, a FileUploadCheck frame is sent only after a
\* ClientInfo frame, a chunk frame only after a FileUploadCheck frame, and all
\* chunk frames carry one session identifier.
SentBefore(k, t) == \E j \in 1..(k - 1) : sent[j].type = t

C14_HandshakeOrder ==
  /\ sent # <<>> => sent[1].type = "Authorization"
  /\ \A k \in 1..Len(sent) :
       /\ sent[k].type = "ClientInfo" => SentBefore(k, "Authorization")
       /\ sent[k].type = "FileUploadCheck" => SentBefore(k, "ClientInfo")
       /\ sent[k].type = "chunk" => SentBefore(k, "FileUploadCheck")
  /\ \A j, k \in 1..Len(ChunkFrames) : ChunkFrames[j].sid = ChunkFrames[k].sid

\* C15: once upload_one has tested state["error"], no step writes the state
\* dict until upload_one has returned, and the result upload_one returns is the
\* one the state dict then determines: the recorded error if there is one, the
\* timeout error if nothing is recorded, and no timeout error if the chunks are
\* recorded as sent.
ReadingRecord == {"check_done", "check_chunks", "verify", "backoff", "return"}

C15_RecordStableWhileRead ==
  /\ [][(mpc \in ReadingRecord /\ mpc' \in ReadingRecord \cup {"crashed"})
          => state' = state]_vars
  /\ [](mpc = "return" =>
          /\ state.error # NoError => result = Result(FALSE, state.error)
          /\ (state.error = NoError /\ ~state.done /\ ~state.chunks_sent)
               => result = Result(FALSE, "timeout")
          /\ (state.error = NoError /\ state.chunks_sent)
               => result.error # "timeout")

\* C16: while the connection or the thread of a session exists, no thread of
\* an earlier file's session is still running.
C16_OneSessionAtATime == hpc # "none" => orphans = 0

\* C17: upload_one returns the timeout error only when
\* done_event.wait(timeout=60) returned on its timeout.
C17_TimeoutOnlyAfterWait ==
  (mpc = "return" /\ result.error = "timeout") => wait_expired

\* C18: every call of upload_one returns a result, and the program prints its
\* results, whatever the server does.
C18_UploadOneReturns ==
  /\ (mpc = "wait") ~> (mpc = "return")
  /\ <>(mpc = "printed")

\* C19: upload_one returns success=true only if a FileUpload response with
\* code 6 was handled or a verifier read matched the content hash; a successful
\* result carries no error and is not returned while the state dict holds one.
C19_SuccessOnlyIfConfirmed ==
  (mpc = "return" /\ result.success)
    => /\ \/ state.no_update
          \/ verified /\ server_hash = hash_file_bytes(file_data)
       /\ result.error = NoError
       /\ state.error = NoError

C19_Witness ==
  /\ mpc = "return"
  /\ result.success
  /\ verified
  /\ ~state.no_update
  /\ reads = VerifyAttempts

\* C20: a read request is issued only in a session whose chunks are all sent
\* and whose state dict holds no error, hence in none that recorded the
\* no-update answer; and from the first read request on no frame is sent in
\* the session.
C20_VerifierOnlyAfterChunks ==
  /\ [](reads > 0 => (state.chunks_sent /\ state.error = NoError
                        /\ ~state.no_update))
  /\ []((mpc \in {"verify", "backoff"}) => (state.chunks_sent /\ state.error = NoError))
  /\ [][(reads' # reads \/ reads > 0) => sent' \in {sent, <<>>}]_vars

C20_Witness ==
  /\ reads = VerifyAttempts
  /\ mpc = "return"
  /\ result = Result(FALSE, VerifyFailed)
  /\ wait_expired

====
